---- MODULE Spec2Model ----
(***************************************************************************)
(* Value-object factories of domaindrivenjs (packages/core): valueObject,  *)
(* its create / extend closures, the standard methods valueOf / equals /   *)
(* toString of an instance, and the schema adapters valueObjectSchema and  *)
(* specificValueObjectSchema.                                              *)
(*                                                                         *)
(* JavaScript objects live in a heap of addressed objects, so that strict  *)
(* equality (===) of two object values is equality of addresses, as in the *)
(* language.  The validation engine (zod) is modelled by what its parse    *)
(* does for the schema kinds used here: a primitive schema returns the     *)
(* primitive, an object schema returns a NEW object holding the declared   *)
(* keys (unknown keys stripped), nested objects parsed recursively.        *)
(***************************************************************************)
EXTENDS Integers, Sequences, FiniteSets

VARIABLES factories, heap, last

vars == <<factories, heap, last>>

-----------------------------------------------------------------------------
(* Bounds of the model *)

\* Largest number of successful create calls in a run of Spec and SpecMut
MaxCreates == 2
\* Largest number of successful create calls in a run of SpecSchema
MaxSchemaCreates == 1
\* Largest number of factories in a run of SpecExtend
MaxFactories == 3
\* Largest number of factories in a run of SpecConfig
MaxConfigFactories == 2
-----------------------------------------------------------------------------
(* JavaScript values *)

Undef == [t |-> "undef", v |-> 0]
Absent == [t |-> "absent", v |-> 0]
Num(n) == [t |-> "num", v |-> n]
Bool(b) == [t |-> "bool", v |-> b]
Ref(a) == [t |-> "ref", v |-> a]
Fn(i) == [t |-> "fn", v |-> i]

\* Data keys of the modelled schemas, in declaration order
KeySeq == <<"a", "b">>
Keys == {KeySeq[i] : i \in 1..Len(KeySeq)}
StdNames == {"valueOf", "equals", "toString"}
MethodNames == {"add", "scale"}
PropNames == Keys \cup StdNames \cup MethodNames

NoProps == [p \in PropNames |-> Absent]

\* typeof x === "object" (null is not modelled)
TypeofObject(x) == x.t = "ref"
TypeofFunction(x) == x.t = "fn"

\* An object of the heap.  kind: "plain" (a literal or a parse result), "proto"
\* (the prototype object literal of create) or "inst" (the frozen object create
\* returns).  clo is the address of the prototype the standard methods of the
\* object are bound to (0: the object has none); fac and vdata are the factory
\* and the validatedData that closure captured; src is the argument create was
\* called with (kept for the statement of the properties only).
Obj(kind, props, frozen, clo, fac, vdata, src) ==
  [kind |-> kind, props |-> props, frozen |-> frozen, clo |-> clo,
   fac |-> fac, vdata |-> vdata, src |-> src]

PlainObj(props) == Obj("plain", props, FALSE, 0, 0, Undef, Undef)

Addrs(h) == 1..Len(h)

\* Object.getOwnPropertyNames(o)
OwnPropertyNames(o) == {p \in PropNames : o.props[p] # Absent}

\* Object.keys(o) of an object holding data only
DataKeys(o) == {k \in Keys : o.props[k] # Absent}

-----------------------------------------------------------------------------
(* The validation engine: schemas and parse *)

NoShape == [k \in Keys |-> "none"]
NoMin == 0 - 1000

\* A schema: constructor name (kind), lower bound of a number schema (min),
\* and for an object schema the kind of each declared key:
\* "num" z.number(), "nonneg" z.number().nonnegative(),
\* "obj" z.object({a: z.number()}), "none" not declared.
Schema(kind, min, shape) == [kind |-> kind, min |-> min, shape |-> shape]

NoSchema == Schema("undefined", NoMin, NoShape)
ZNumber == Schema("ZodNumber", NoMin, NoShape)
ZNonNegative == Schema("ZodNumber", 0, NoShape)
ZObject(shape) == Schema("ZodObject", NoMin, shape)

Issue(path, message) == [path |-> path, message |-> message]

\* Issues of a value against z.number() with lower bound min
NumberIssues(path, min, d) ==
  IF d.t = "undef" THEN <<Issue(path, "Required")>>
  ELSE IF d.t # "num" THEN <<Issue(path, "Expected number")>>
  ELSE IF d.v < min THEN <<Issue(path, "Number must be greater than or equal to 0")>>
  ELSE <<>>

BooleanIssues(path, d) ==
  IF d.t = "undef" THEN <<Issue(path, "Required")>>
  ELSE IF d.t # "bool" THEN <<Issue(path, "Expected boolean")>>
  ELSE <<>>

\* Issues of the value of one declared key of an object schema
FieldIssues(h, key, kind, d) ==
  CASE kind = "none" -> <<>>
    [] kind = "num" -> NumberIssues(key, NoMin, d)
    [] kind = "nonneg" -> NumberIssues(key, 0, d)
    [] kind = "obj" ->
         IF d.t = "undef" THEN <<Issue(key, "Required")>>
         ELSE IF d.t # "ref" THEN <<Issue(key, "Expected object")>>
         ELSE NumberIssues(key, NoMin, h[d.v].props["a"])

RECURSIVE ObjectIssues(_, _, _, _)
ObjectIssues(h, shape, o, i) ==
  IF i > Len(KeySeq) THEN <<>>
  ELSE FieldIssues(h, KeySeq[i], shape[KeySeq[i]], o.props[KeySeq[i]])
         \o ObjectIssues(h, shape, o, i + 1)

\* ZodError.errors of schema.parse(d); empty when d is accepted
ParseIssues(h, schema, d) ==
  CASE schema.kind = "ZodNumber" -> NumberIssues("", schema.min, d)
    [] schema.kind = "ZodBoolean" -> BooleanIssues("", d)
    [] schema.kind = "ZodObject" ->
         IF d.t = "undef" THEN <<Issue("", "Required")>>
         ELSE IF d.t # "ref" THEN <<Issue("", "Expected object")>>
         ELSE ObjectIssues(h, schema.shape, h[d.v], 1)

\* The keys of a shape that hold a nested object, in declaration order
NestedIdx(shape) == {i \in 1..Len(KeySeq) : shape[KeySeq[i]] = "obj"}
Rank(S, i) == Cardinality({j \in S : j < i})
IdxOf(k) == CHOOSE i \in 1..Len(KeySeq) : KeySeq[i] = k

\* The heap after parse built its result for an accepted object: one new
\* object per nested key, then the new top-level object (unknown keys dropped)
ParseObjectHeap(h, shape, o) ==
  LET nested == NestedIdx(shape)
      n == Cardinality(nested)
      base == Len(h)
      nestedObj(j) ==
        LET i == CHOOSE x \in nested : Rank(nested, x) = j - 1
            inner == h[o.props[KeySeq[i]].v]
        IN PlainObj([NoProps EXCEPT !["a"] = inner.props["a"]])
      top ==
        PlainObj([p \in PropNames |->
          IF p \in Keys /\ shape[p] # "none"
          THEN IF shape[p] = "obj"
               THEN Ref(base + Rank(nested, IdxOf(p)) + 1)
               ELSE o.props[p]
          ELSE Absent])
  IN h \o [j \in 1..n |-> nestedObj(j)] \o <<top>>

\* schema.parse(d): ok, the heap holding what parse allocated, the validated
\* value (out) and, when rejected, the issues of the ZodError thrown
Parse(h, schema, d) ==
  LET issues == ParseIssues(h, schema, d)
  IN IF issues # <<>>
     THEN [ok |-> FALSE, heap |-> h, out |-> Undef, issues |-> issues]
     ELSE IF schema.kind = "ZodObject"
     THEN LET h2 == ParseObjectHeap(h, schema.shape, h[d.v])
          IN [ok |-> TRUE, heap |-> h2, out |-> Ref(Len(h2)), issues |-> <<>>]
     ELSE [ok |-> TRUE, heap |-> h, out |-> d, issues |-> <<>>]

-----------------------------------------------------------------------------
(* Factories *)

\* A method map: for each method name the implementation it is defined with
\* (0: not defined).  ImplAssigns(i): the body of implementation i assigns
\* this.a; the other implementations only read.
NoMethods == [m \in MethodNames |-> 0]
ImplAssigns(i) == i = 2

Truthy(x) == (x.t = "bool" /\ x.v = 1) \/ (x.t = "num" /\ x.v # 0) \/ x.t \in {"ref", "fn"}

\* const isPrimitive = ... of valueObject
IsPrimitiveKind(schema, overrideIsPrimitive) ==
  \/ schema.kind = "ZodString"
  \/ schema.kind = "ZodNumber"
  \/ schema.kind = "ZodBoolean"
  \/ Truthy(overrideIsPrimitive)

\* The closure a successful valueObject call leaves behind.  methodsFactory
\* is either the caller's function (parent = 0, returning ext) or the
\* combinedMethodsFactory of extend, which closes over the methodsFactory of
\* the factory it was made in (parent) and over extendedMethodsFactory (ext).
Factory(name, schema, parent, ext, overrideIsPrimitive) ==
  [name |-> name, schema |-> schema, parent |-> parent, ext |-> ext,
   overrideIsPrimitive |-> overrideIsPrimitive,
   isPrimitive |-> IsPrimitiveKind(schema, overrideIsPrimitive)]

\* (variant: the spread written in the other order, parent over child)
MergeMethodsParentWins(parentMethods, extendedMethods) ==
  [m \in MethodNames |->
     IF parentMethods[m] # 0 THEN parentMethods[m] ELSE extendedMethods[m]]

\* {...parentMethods, ...extendedMethods}
MergeMethods(parentMethods, extendedMethods) ==
  [m \in MethodNames |->
     IF extendedMethods[m] # 0 THEN extendedMethods[m] ELSE parentMethods[m]]

\* methodsFactory(tempFactory) of factory f
RECURSIVE CallMethodsFactory(_, _)
CallMethodsFactory(facs, f) ==
  IF facs[f].parent = 0 THEN facs[f].ext
  ELSE MergeMethods(CallMethodsFactory(facs, facs[f].parent), facs[f].ext)

-----------------------------------------------------------------------------
(* Errors *)

NoError == [type |-> "none", message |-> <<>>, cause |-> <<>>,
            objectType |-> "", input |-> Undef]

\* new Error(message)
PlainError(message) == [type |-> "Error", message |-> <<message>>, cause |-> <<>>,
                        objectType |-> "", input |-> Undef]

\* The ZodError schema.parse throws
ZodError(issues) == [type |-> "ZodError", message |-> <<>>, cause |-> issues,
                     objectType |-> "", input |-> Undef]

\* new ValidationError(message, cause, context)
ValidationError(message, cause, context) ==
  [type |-> "ValidationError", message |-> message, cause |-> cause.cause,
   objectType |-> context.objectType, input |-> context.input]

\* error.errors.map((e) => e.message)
Messages(issues) == [i \in 1..Len(issues) |-> issues[i].message]

\* (variant: a catch block that rethrows whatever it caught)
CreateCatchRethrow(name, data, error) == error

\* The catch block of create
CreateCatch(name, data, error) ==
  IF error.type = "ZodError"
  THEN ValidationError(<<"Invalid", name>> \o Messages(error.cause), error,
                       [objectType |-> name, input |-> data])
  ELSE error

-----------------------------------------------------------------------------
(* create *)

\* {...validatedData}: the own enumerable properties of the validated value;
\* a number or a boolean has none
Spread(h, vd) ==
  IF vd.t = "ref" THEN [p \in PropNames |-> IF p \in Keys THEN h[vd.v].props[p] ELSE Absent]
  ELSE NoProps

\* The prototype object literal of create
PrototypeProps(h, vd) ==
  [p \in PropNames |-> IF p \in StdNames THEN Fn(0) ELSE Spread(h, vd)[p]]

\* {...validatedData, valueOf, equals, toString, ...boundMethods}
InstanceProps(h, vd, methods) ==
  [p \in PropNames |->
     IF p \in MethodNames /\ methods[p] # 0 THEN Fn(methods[p])
     ELSE IF p \in StdNames THEN Fn(0)
     ELSE Spread(h, vd)[p]]

\* create(data) of factory f: ok, the heap after the call, the addresses of
\* the prototype and of the frozen instance returned, or the error thrown
CreateResult(h, facs, f, data) ==
  LET fac == facs[f]
      parsed == Parse(h, fac.schema, data)
  IN IF ~parsed.ok
     THEN [ok |-> FALSE, heap |-> h, proto |-> 0, inst |-> 0,
           err |-> CreateCatch(fac.name, data, ZodError(parsed.issues))]
     ELSE LET h2 == parsed.heap
              vd == parsed.out
              pa == Len(h2) + 1
              methods == CallMethodsFactory(facs, f)
              prototype == Obj("proto", PrototypeProps(h2, vd), FALSE, pa, f, vd, data)
              instance == Obj("inst", InstanceProps(h2, vd, methods), TRUE, pa, f, vd, data)
          IN [ok |-> TRUE, heap |-> h2 \o <<prototype, instance>>,
              proto |-> pa, inst |-> pa + 1, err |-> NoError]

-----------------------------------------------------------------------------
(* The standard methods.  this is the prototype at address p: create binds   *)
(* every method of an instance to its prototype, and a method called on the  *)
(* prototype itself has the prototype as this.                               *)

\* valueOf()
ValueOf(h, facs, p) ==
  LET validatedData == h[p].vdata
  IN IF facs[h[p].fac].isPrimitive THEN validatedData
     ELSE LET keys == DataKeys(h[validatedData.v])
          IN IF Cardinality(keys) = 1
                /\ ~TypeofObject(h[validatedData.v].props[CHOOSE k \in keys : TRUE])
             THEN h[validatedData.v].props[CHOOSE k \in keys : TRUE]
             ELSE Ref(p)

\* other.valueOf ? other.valueOf() : other.  A number or boolean answers with
\* itself; an object without a valueOf of its own inherits Object.prototype's,
\* which answers with the object.
OtherValueOf(h, facs, other) ==
  IF other.t = "ref" /\ h[other.v].clo # 0
  THEN ValueOf(h, facs, h[other.v].clo)
  ELSE other

\* Object.getOwnPropertyNames(x).filter(prop => typeof x[prop] !== "function")
DataProps(h, x) ==
  IF x.t = "ref"
  THEN {prop \in OwnPropertyNames(h[x.v]) : ~TypeofFunction(h[x.v].props[prop])}
  ELSE {}

\* other.hasOwnProperty(prop)
HasOwnProperty(h, x, prop) == x.t = "ref" /\ h[x.v].props[prop] # Absent

\* x[prop]
Get(h, x, prop) == IF x.t = "ref" THEN h[x.v].props[prop] ELSE Absent

\* equals(other)
Equals(h, facs, p, other) ==
  IF other.t = "undef" THEN FALSE
  ELSE IF other = Ref(p) THEN TRUE
  ELSE IF facs[h[p].fac].isPrimitive
  THEN ValueOf(h, facs, p) = OtherValueOf(h, facs, other)
  ELSE LET thisDataProps == DataProps(h, Ref(p))
           otherDataProps == DataProps(h, other)
       IN IF Cardinality(thisDataProps) # Cardinality(otherDataProps) THEN FALSE
          ELSE \A prop \in thisDataProps :
                 HasOwnProperty(h, other, prop) /\ Get(h, Ref(p), prop) = Get(h, other, prop)

\* One entry of JSON.stringify(validatedData): the key, its value, and for a
\* nested object the value of its key a
JsonEntry(h, o, k) ==
  [key |-> k,
   val |-> IF o.props[k].t = "ref" THEN Ref(0) ELSE o.props[k],
   inner |-> IF o.props[k].t = "ref" THEN h[o.props[k].v].props["a"] ELSE Absent]

Json(h, x) ==
  IF x.t = "ref" THEN {JsonEntry(h, h[x.v], k) : k \in DataKeys(h[x.v])} ELSE {}

\* toString(): String(primitiveValue) of a primitive wrapper, else
\* `${name}(${JSON.stringify(validatedData)})`
ToString(h, facs, p) ==
  IF facs[h[p].fac].isPrimitive
  THEN [name |-> "", prim |-> IF h[p].vdata.t = "ref" THEN Ref(0) ELSE h[p].vdata, json |-> {}]
  ELSE [name |-> facs[h[p].fac].name, prim |-> Absent, json |-> Json(h, h[p].vdata)]

\* The methods as a caller reaches them, on the frozen instance at address v
InstValueOf(h, facs, v) == ValueOf(h, facs, h[v].clo)
InstEquals(h, facs, v, other) == Equals(h, facs, h[v].clo, other)
InstToString(h, facs, v) == ToString(h, facs, h[v].clo)

Instances(h) == {a \in Addrs(h) : h[a].kind = "inst"}

-----------------------------------------------------------------------------
(* Schema adapters *)

\* val instanceof Object && typeof val.equals === 'function'
IsValueObject(h, val) == val.t = "ref" /\ TypeofFunction(h[val.v].props["equals"])

\* typeCheck of specificValueObjectSchema(factory f): a throw of create is
\* caught and answers false
TypeCheck(h, facs, f, val) ==
  LET testRecreate == CreateResult(h, facs, f, OtherValueOf(h, facs, val))
  IN IF testRecreate.ok
     THEN Equals(testRecreate.heap, facs, testRecreate.proto, val)
     ELSE FALSE

\* (variant: the typeCheck option is not consulted)
SpecificSchemaIgnoresTypeCheck(h, facs, f, val) == IsValueObject(h, val)

\* The predicate z.custom is given by valueObjectSchema({typeName, typeCheck}),
\* with the typeCheck of specificValueObjectSchema(factory f)
SpecificSchemaAccepts(h, facs, f, val) ==
  LET isValueObject == IsValueObject(h, val)
  IN IF isValueObject THEN TypeCheck(h, facs, f, val) ELSE isValueObject

-----------------------------------------------------------------------------
(* valueObject and extend *)

\* What a caller passes as methodsFactory: undefined, or a function that
\* returns the method map methods
NoFunction == [t |-> "undefined", methods |-> NoMethods]
Function(methods) == [t |-> "function", methods |-> methods]

\* valueObject({name, schema, methodsFactory, overrideIsPrimitive}); parent is
\* the factory whose extend made methodsFactory (0: the caller made it)
ValueObjectResult(facs, name, schema, methodsFactory, overrideIsPrimitive, parent) ==
  IF name = "" THEN [ok |-> FALSE, facs |-> facs,
                     err |-> PlainError("Value object name is required")]
  ELSE IF schema.kind = "undefined"
  THEN [ok |-> FALSE, facs |-> facs, err |-> PlainError("Value object schema is required")]
  ELSE IF methodsFactory.t # "function"
  THEN [ok |-> FALSE, facs |-> facs, err |-> PlainError("Method factory is required")]
  ELSE [ok |-> TRUE,
        facs |-> Append(facs, Factory(name, schema, parent, methodsFactory.methods,
                                      overrideIsPrimitive)),
        err |-> NoError]

\* The schema transformers offered to extend: "refine" narrows a number
\* schema to the non-negative numbers and adds the key b to an object schema
ApplyTransformer(schemaTransformer, schema) ==
  IF schema.kind = "ZodNumber" THEN Schema(schema.kind, 0, schema.shape)
  ELSE IF schema.kind = "ZodObject"
  THEN Schema(schema.kind, schema.min, [schema.shape EXCEPT !["b"] = "num"])
  ELSE schema

\* (variant: extend without the check of its methodsFactory)
ExtendResultUnchecked(facs, f, extendedName, schemaTransformer, extendedMethodsFactory) ==
  IF extendedName = ""
  THEN [ok |-> FALSE, facs |-> facs,
        err |-> PlainError("Extended value object name is required")]
  ELSE ValueObjectResult(facs, extendedName,
                         IF schemaTransformer # "undefined"
                         THEN ApplyTransformer(schemaTransformer, facs[f].schema)
                         ELSE facs[f].schema,
                         Function(extendedMethodsFactory.methods),
                         facs[f].overrideIsPrimitive, f)

\* (variant: extend stores the transformed schema in the factory it extends)
ExtendResultInPlace(facs, f, extendedName, schemaTransformer, extendedMethodsFactory) ==
  IF extendedName = ""
  THEN [ok |-> FALSE, facs |-> facs,
        err |-> PlainError("Extended value object name is required")]
  ELSE IF extendedMethodsFactory.t # "function"
  THEN [ok |-> FALSE, facs |-> facs,
        err |-> PlainError("Method factory is required for extension")]
  ELSE LET extendedSchema == IF schemaTransformer # "undefined"
                             THEN ApplyTransformer(schemaTransformer, facs[f].schema)
                             ELSE facs[f].schema
       IN ValueObjectResult([facs EXCEPT ![f].schema = extendedSchema],
                            extendedName, extendedSchema,
                            Function(extendedMethodsFactory.methods),
                            facs[f].overrideIsPrimitive, f)

\* extend({name, schema, methodsFactory}) of factory f.  Any other key of the
\* options object (such as methods) is not read.
ExtendResult(facs, f, extendedName, schemaTransformer, extendedMethodsFactory) ==
  IF extendedName = ""
  THEN [ok |-> FALSE, facs |-> facs,
        err |-> PlainError("Extended value object name is required")]
  ELSE IF extendedMethodsFactory.t # "function"
  THEN [ok |-> FALSE, facs |-> facs,
        err |-> PlainError("Method factory is required for extension")]
  ELSE LET extendedSchema == IF schemaTransformer # "undefined"
                             THEN ApplyTransformer(schemaTransformer, facs[f].schema)
                             ELSE facs[f].schema
       IN ValueObjectResult(facs, extendedName, extendedSchema,
                            Function(extendedMethodsFactory.methods),
                            facs[f].overrideIsPrimitive, f)

-----------------------------------------------------------------------------
(* State *)

\* The literals a caller holds before any call: {a: 1}, {a: 0}, {a: 1, b: 0}
\* and {a: {a: 0}} (whose inner object is the second literal)
Literals ==
  << PlainObj([NoProps EXCEPT !["a"] = Num(1)]),
     PlainObj([NoProps EXCEPT !["a"] = Num(0)]),
     PlainObj([NoProps EXCEPT !["a"] = Num(1), !["b"] = Num(0)]),
     PlainObj([NoProps EXCEPT !["a"] = Ref(2)]) >>

\* The values offered as arguments
Primitives == {Undef, Bool(1), Num(0 - 1), Num(0), Num(1)}
Inputs(h) == Primitives \cup {Ref(a) : a \in Addrs(h)}

\* What the last call was and what it answered or threw
Last(op, fac, arg, ok, val, err, name, schemaKind, mf, methodsKey) ==
  [op |-> op, fac |-> fac, arg |-> arg, ok |-> ok, val |-> val, err |-> err,
   name |-> name, schemaKind |-> schemaKind, mf |-> mf, methodsKey |-> methodsKey]

NoCall == Last("none", 0, Undef, TRUE, Undef, NoError, "", "", "", "")

\* The factories of the value-equality runs, each made by a valueObject call
MoneyMethods == [m \in MethodNames |-> IF m = "add" THEN 1 ELSE 2]
Shape1(ka) == [NoShape EXCEPT !["a"] = ka]
Shape2(ka, kb) == [NoShape EXCEPT !["a"] = ka, !["b"] = kb]
LibAmount == ValueObjectResult(<<>>, "Amount", ZNonNegative, Function(NoMethods), Undef, 0).facs
LibSingle == ValueObjectResult(LibAmount, "Single", ZObject(Shape1("num")),
                               Function(NoMethods), Undef, 0).facs
LibMoney == ValueObjectResult(LibSingle, "Money", ZObject(Shape2("nonneg", "num")),
                              Function(MoneyMethods), Undef, 0).facs
LibTagged == ValueObjectResult(LibMoney, "Tagged", ZObject(Shape1("obj")),
                               Function(NoMethods), Undef, 0).facs
Library == ValueObjectResult(LibTagged, "Wrapped", ZObject(Shape1("num")),
                             Function(NoMethods), Bool(1), 0).facs

Init ==
  /\ factories = Library
  /\ heap = Literals
  /\ last = NoCall

InitExtend ==
  /\ factories = <<>>
  /\ heap = Literals
  /\ last = NoCall

-----------------------------------------------------------------------------
(* Actions *)

\* factory.create(data), at most max successful calls in a run
CreateCall(f, data, max) ==
  /\ Cardinality(Instances(heap)) < max
  /\ LET r == CreateResult(heap, factories, f, data)
     IN /\ heap' = r.heap
        /\ last' = Last("create", f, data, r.ok, IF r.ok THEN Ref(r.inst) ELSE Undef,
                         r.err, "", "", "", "")
  /\ UNCHANGED factories

Create == \E f \in 1..Len(factories) : \E data \in Inputs(heap) : CreateCall(f, data, MaxCreates)

\* specificValueObjectSchema(factory f) applied to val; the objects its
\* typeCheck creates are dropped when it returns
SchemaCheck ==
  \E f \in 1..Len(factories) : \E val \in Inputs(heap) :
    /\ last' = Last("schema", f, val, SpecificSchemaAccepts(heap, factories, f, val),
                     Undef, NoError, "", "", "", "")
    /\ UNCHANGED <<factories, heap>>

\* target[key] = x in strict-mode code: a frozen target is left as it was
\* and the assignment throws a TypeError
WriteProp(h, target, key, x) ==
  IF h[target].frozen THEN h ELSE [h EXCEPT ![target].props[key] = x]

\* v[key] = x from outside, for an instance v
AssignField ==
  \E v \in Instances(heap) : \E key \in Keys : \E x \in {Num(0), Num(1)} :
    /\ heap' = WriteProp(heap, v, key, x)
    /\ last' = Last("assign", v, x, ~heap[v].frozen, Undef,
                     IF heap[v].frozen THEN PlainError("TypeError") ELSE NoError,
                     key, "", "", "")
    /\ UNCHANGED factories

\* v[m](x) for a custom method m of instance v.  The method was bound to the
\* prototype of v, so an assigning body writes this.a of the prototype.
CallMethod ==
  \E v \in Instances(heap) : \E m \in MethodNames : \E x \in {Num(0), Num(1)} :
    /\ TypeofFunction(heap[v].props[m])
    /\ heap' = IF ImplAssigns(heap[v].props[m].v)
               THEN WriteProp(heap, heap[v].clo, "a", x)
               ELSE heap
    /\ last' = Last("method", v, x, TRUE, Undef, NoError, m, "", "", "")
    /\ UNCHANGED factories

\* v.valueOf(), v.equals(w), v.toString(): they read and change nothing
CallStandard ==
  \E v \in Instances(heap) : \E m \in StdNames :
    /\ last' = Last("standard", v, Undef, TRUE,
                     IF m = "valueOf" THEN InstValueOf(heap, factories, v) ELSE Undef,
                     NoError, m, "", "", "")
    /\ UNCHANGED <<factories, heap>>

\* A create call of the schema-adapter runs
CreateForSchema ==
  \E f \in 1..Len(factories) : \E data \in Inputs(heap) : CreateCall(f, data, MaxSchemaCreates)

\* The option values offered to valueObject and extend
BaseNames == {"", "Base"}
ExtendedNames == {"", "Ext"}
BaseSchemas == {NoSchema, ZNumber, ZObject(Shape1("num"))}
Transformers == {"undefined", "refine"}
MethodMaps == {[m \in MethodNames |-> IF m = "add" THEN 1 ELSE 0],
               [m \in MethodNames |-> IF m = "add" THEN 2 ELSE 1]}
MethodsFactories == {NoFunction} \cup {Function(mm) : mm \in MethodMaps}
Overrides == {Undef, Bool(1)}

\* valueObject(options), while fewer than max factories exist
ValueObjectCall(name, schema, mf, ov, max) ==
  /\ Len(factories) < max
  /\ LET r == ValueObjectResult(factories, name, schema, mf, ov, 0)
     IN /\ factories' = r.facs
        /\ last' = Last("valueObject", IF r.ok THEN Len(r.facs) ELSE 0, Undef, r.ok,
                         Undef, r.err, name, schema.kind, mf.t, "undefined")
  /\ UNCHANGED heap

\* factory.extend(options) of factory f; methodsKey tells whether the options
\* object also has a key methods, as in
\* Number.extend({name: 'IntegerNumber', schema: ..., methods: {}})
ExtendCall(f, name, tr, mf, methodsKey, max) ==
  /\ Len(factories) < max
  /\ LET r == ExtendResult(factories, f, name, tr, mf)
     IN /\ factories' = r.facs
        /\ last' = Last("extend", f, Undef, r.ok, Undef, r.err, name, tr, mf.t, methodsKey)
  /\ UNCHANGED heap

\* Configuration runs: every option value, well-formed or not
ValueObject ==
  \E name \in BaseNames, schema \in BaseSchemas, mf \in MethodsFactories, ov \in Overrides :
    ValueObjectCall(name, schema, mf, ov, MaxConfigFactories)

Extend ==
  \E f \in 1..Len(factories) :
    \E name \in ExtendedNames, tr \in Transformers, mf \in MethodsFactories,
       methodsKey \in {"undefined", "object"} :
      ExtendCall(f, name, tr, mf, methodsKey, MaxConfigFactories)

\* Extension runs: one root factory, extended and re-extended with
\* well-formed options, and one instance, created from a negative number, a
\* positive number, the literal {a: 1} or the literal {a: 1, b: 0}
DefineRoot ==
  \E schema \in BaseSchemas \ {NoSchema}, mm \in MethodMaps, ov \in Overrides :
    /\ factories = <<>>
    /\ ValueObjectCall("Base", schema, Function(mm), ov, MaxFactories)

ExtendFactory ==
  \E f \in 1..Len(factories) : \E tr \in Transformers, mm \in MethodMaps :
    ExtendCall(f, "Ext", tr, Function(mm), "undefined", MaxFactories)

ExtendedInputs == {Num(0 - 1), Num(1), Ref(1), Ref(3)}

CreateExtended ==
  \E f \in 1..Len(factories) : \E data \in ExtendedInputs :
    /\ Instances(heap) = {}
    /\ CreateCall(f, data, MaxFactories)

Next == Create

Spec == Init /\ [][Next]_vars

NextMut == Create \/ AssignField \/ CallMethod \/ CallStandard

SpecMut == Init /\ [][NextMut]_vars

NextSchema == CreateForSchema \/ SchemaCheck

SpecSchema == Init /\ [][NextSchema]_vars

NextExtend == DefineRoot \/ ExtendFactory \/ CreateExtended

SpecExtend == InitExtend /\ [][NextExtend]_vars

NextConfig == ValueObject \/ Extend

SpecConfig == InitExtend /\ [][NextConfig]_vars

-----------------------------------------------------------------------------
(* Properties *)

\* What input d holds under declared key k of factory f's schema, by value
\* (a nested object by the value of its key a)
FieldContent(h, d, k) ==
  IF d.t # "ref" THEN d
  ELSE IF h[d.v].props[k].t = "ref" THEN Get(h, h[d.v].props[k], "a")
  ELSE h[d.v].props[k]

DeclaredKeys(schema) == {k \in Keys : schema.shape[k] # "none"}

\* Inputs d1 and d2 of factory f differ in a field
DifferInField(h, facs, f, d1, d2) ==
  IF facs[f].schema.kind = "ZodObject"
  THEN \E k \in DeclaredKeys(facs[f].schema) : FieldContent(h, d1, k) # FieldContent(h, d2, k)
  ELSE d1 # d2

\* C1: two instances one factory created from the same input are equal, and
\* two instances created from inputs that differ in a field are not equal.
C1_ValueEquality ==
  \A v \in Instances(heap) : \A w \in Instances(heap) \ {v} :
    heap[v].fac = heap[w].fac =>
      /\ heap[v].src = heap[w].src => InstEquals(heap, factories, v, Ref(w))
      /\ DifferInField(heap, factories, heap[v].fac, heap[v].src, heap[w].src)
           => ~InstEquals(heap, factories, v, Ref(w))

\* What a caller observes of instance v: its properties and the answers of
\* its standard methods against every value
Observed(h, facs, v, others) ==
  [props |-> h[v].props,
   valueOf |-> InstValueOf(h, facs, v),
   toString |-> InstToString(h, facs, v),
   equals |-> [w \in others |-> InstEquals(h, facs, v, w)]]

\* C2: no step changes a field of an existing instance or an answer of its
\* equals, valueOf or toString, and a step that writes a field changes nothing.
C2_Immutable ==
  [][\A v \in Instances(heap) :
       /\ Observed(heap', factories', v, Inputs(heap))
            = Observed(heap, factories, v, Inputs(heap))
       /\ (last'.op \in {"assign", "method"} /\ last'.fac = v) =>
            \A a \in Addrs(heap) : heap'[a] = heap[a]]_vars

\* create(v.valueOf()).equals(v) for factory f
RoundTrip(h, facs, f, val) ==
  LET r == CreateResult(h, facs, f, OtherValueOf(h, facs, val))
  IN r.ok /\ InstEquals(r.heap, facs, r.inst, val)

\* C3: for every instance v of a primitive-wrapper factory,
\* create(v.valueOf()) succeeds and equals v.
C3_RoundTrip ==
  \A v \in Instances(heap) :
    factories[heap[v].fac].isPrimitive => RoundTrip(heap, factories, heap[v].fac, Ref(v))

\* C4: a create call whose input the schema rejects returns no instance and
\* throws a ValidationError carrying the messages of all issues, the factory
\* name as objectType, the input, and the engine's error; never the raw error.
C4_ValidationFailure ==
  [][(last'.op = "create"
       /\ ParseIssues(heap, factories[last'.fac].schema, last'.arg) # <<>>) =>
      LET issues == ParseIssues(heap, factories[last'.fac].schema, last'.arg)
          name == factories[last'.fac].name
      IN /\ ~last'.ok
         /\ last'.val = Undef
         /\ heap' = heap
         /\ last'.err.type = "ValidationError"
         /\ last'.err.message = <<"Invalid", name>> \o [i \in 1..Len(issues) |-> issues[i].message]
         /\ last'.err.cause = issues
         /\ last'.err.objectType = name
         /\ last'.err.input = last'.arg]_vars

\* A rejected create call whose error aggregates two field-level messages
C4_Witness ==
  /\ last.op = "create"
  /\ ~last.ok
  /\ last.err.type = "ValidationError"
  /\ Len(last.err.message) = 4
  /\ last.err.input.t = "ref"

\* The latest factory of the chain ending in f that defines method m (0: none)
RECURSIVE LatestDefiner(_, _, _)
LatestDefiner(facs, f, m) ==
  IF facs[f].ext[m] # 0 THEN f
  ELSE IF facs[f].parent = 0 THEN 0
  ELSE LatestDefiner(facs, facs[f].parent, m)

\* C5: an instance carries exactly the custom methods some factory of its
\* chain defines, each with the implementation of the latest factory
\* defining it.
C5_MethodComposition ==
  \A v \in Instances(heap) : \A m \in MethodNames :
    LET g == LatestDefiner(factories, heap[v].fac, m)
    IN heap[v].props[m] = IF g = 0 THEN Absent ELSE Fn(factories[g].ext[m])

\* An instance of a twice-extended factory that overrides a method the root
\* defines and inherits another from the root through a parent not defining it
C5_Witness ==
  \E v \in Instances(heap) :
    LET f == heap[v].fac
        p == factories[f].parent
    IN /\ p # 0
       /\ factories[p].parent # 0
       /\ factories[f].ext["add"] # 0
       /\ factories[factories[p].parent].ext["add"] # 0
       /\ factories[factories[p].parent].ext["add"] # factories[f].ext["add"]
       /\ factories[f].ext["scale"] = 0
       /\ factories[p].ext["scale"] = 0
       /\ factories[factories[p].parent].ext["scale"] # 0
       /\ heap[v].props["scale"] # Absent

\* What create(d) of factory f answers, without the addresses it allocated
CreateView(h, facs, f, d) ==
  LET r == CreateResult(h, facs, f, d)
  IN [ok |-> r.ok, err |-> r.err,
      data |-> IF r.ok THEN Json(r.heap, Ref(r.inst)) ELSE {},
      functions |-> IF r.ok
                    THEN [p \in StdNames \cup MethodNames |-> r.heap[r.inst].props[p]]
                    ELSE [p \in StdNames \cup MethodNames |-> Absent]]

\* C6: no step changes an existing factory: its name, schema, primitive
\* classification and method set stay, and its create answers every input as
\* before.
C6_ExtensionNonMutation ==
  [][\A f \in 1..Len(factories) :
       /\ Len(factories') >= Len(factories)
       /\ factories'[f] = factories[f]
       /\ CallMethodsFactory(factories', f) = CallMethodsFactory(factories, f)
       /\ \A d \in ExtendedInputs :
            CreateView(heap', factories', f, d) = CreateView(heap, factories, f, d)]_vars

\* A successful create of a factory that has been extended, whose child
\* accepts other inputs and carries other methods than it does
C6_Witness ==
  /\ last.op = "create"
  /\ last.ok
  /\ \E g \in 1..Len(factories) :
       /\ factories[g].parent = last.fac
       /\ factories[g].schema # factories[last.fac].schema
       /\ CallMethodsFactory(factories, g) # CallMethodsFactory(factories, last.fac)

\* C7 as amended: the schema of specificValueObjectSchema(f) accepts v iff v
\* is an object with a callable equals and create(v.valueOf()) succeeds and
\* equals v.
C7_MembershipOfValueObjects ==
  last.op = "schema" =>
    last.ok = (IsValueObject(heap, last.arg) /\ RoundTrip(heap, factories, last.fac, last.arg))

\* C7 as claimed: the schema accepts v iff create(v.valueOf()) succeeds and
\* equals v, for every v.
C7_Membership ==
  last.op = "schema" => last.ok = RoundTrip(heap, factories, last.fac, last.arg)

\* The schema of one factory accepts an instance of another factory
C7_Witness ==
  /\ last.op = "schema"
  /\ last.ok
  /\ last.arg.t = "ref"
  /\ heap[last.arg.v].kind = "inst"
  /\ heap[last.arg.v].fac # last.fac

C9_ValueOf ==
  \A v \in Instances(heap) :
    LET fields == DataProps(heap, Ref(v))
        only == CHOOSE k \in fields : TRUE
    IN InstValueOf(heap, factories, v) =
         IF factories[heap[v].fac].isPrimitive THEN heap[v].vdata
         ELSE IF Cardinality(fields) = 1 /\ ~TypeofObject(heap[v].props[only])
         THEN heap[v].props[only]
         ELSE Ref(v)

\* C10: a.equals(b) and b.equals(a) agree for any two instances.
C10_Symmetry ==
  \A a \in Instances(heap) : \A b \in Instances(heap) :
    InstEquals(heap, factories, a, Ref(b)) = InstEquals(heap, factories, b, Ref(a))

====
